---- MODULE Spec2Model ----
(***************************************************************************)
(* Model of the loop orchestrator (loopMain, waitForIdleOrError, the       *)
(* signal handler), the event bridge (subscribeToEvents), the status       *)
(* classifier (extractLoopControl) and the summary printed by the UI.      *)
(* The agent runtime (prompt endpoint, message store, push stream) is the  *)
(* environment: it accepts or rejects prompts, runs turns, declares        *)
(* statuses and ends turns with idle or error.                             *)
(***************************************************************************)
EXTENDS Integers, Sequences, FiniteSets, TLC

\* ---- bounds ----
MaxIter == 2            \* config.maxIterations ranges over 1..MaxIter
MaxRetriesCfg == 3      \* config.maxRetries ranges over 0..MaxRetriesCfg
MaxQueue == 2           \* events in flight on the push stream
MaxParts == 1           \* loop_control parts the agent writes in one turn
MaxIterScenario == 4    \* config.maxIterations in the scripted-agent scenarios
MaxRetriesScenario == 5 \* config.maxRetries in the failing-turn scenario
MaxLen == 3             \* parts of the turn given to the classifier alone

\* ---- values ----
Absent == "absent"      \* a null LoopControlResult
Missing == "missing"    \* input.status undefined
NoPart ==
  [type |-> "none", tool |-> "", state |-> "", status |-> Missing,
   message |-> Missing, error |-> ""]
TargetSession == "ses_target"   \* the session loopMain created

ToolPart(tool, state, status, message, error) ==
  [type |-> "tool", tool |-> tool, state |-> state, status |-> status,
   message |-> message, error |-> error]

\* Raw status inputs the modelled agent passes to the loop_control tool.
AgentInputs == {"complete", "blocked", "progress", Missing}

\* loop_control tool parts the modelled agent produces in a turn.
AgentParts ==
  {[type |-> "tool", tool |-> "loop_control", state |-> "completed", status |-> s,
    message |-> "m1", error |-> ""] : s \in AgentInputs}
  \cup {[type |-> "tool", tool |-> "loop_control", state |-> "error",
          status |-> Missing, message |-> Missing, error |-> "boom"]}

VARIABLES
  maxIterations,      \* config.maxIterations
  maxRetries,         \* config.maxRetries
  script,             \* scripted agent: the part it declares in each turn
  pc,                 \* where loopMain is suspended
  currentIteration,
  consecutiveMisses,
  summaries,          \* IterationSummary[]
  aborted,            \* set by onSignal
  retries,            \* local of waitForIdleOrError
  idleResolve,        \* eventState.idleResolve # null
  errorResolve,       \* eventState.errorResolve # null
  latestLoopControl,  \* eventState.latestLoopControl
  req,                \* the promptAsync call of sendPrompt
  prompts,            \* texts of the prompts the loop decided to send
  paused,             \* TuiUI._paused
  pauseResolve,       \* TuiUI.pauseResolve # null
  reports,            \* calls of ui.onLoopComplete
  hpc,                \* where onSignal is suspended
  abortRequests,      \* client.session.abort calls
  proc,               \* the process: running or exited
  bridge,             \* the background event loop of subscribeToEvents
  abortFlag,          \* abortController.signal.aborted
  pending,            \* prompts the runtime accepted and has not answered
  turnActive,         \* the runtime is running a turn
  msgParts,           \* parts of the latest assistant message
  stream,             \* events published and not yet consumed
  retryLog,           \* history: the onRetry calls of the latest wait that retried
  capturedThisTurn,   \* history: onLoopControl ran for the latest message
  dropped,            \* history: kinds of events the bridge read and gave to no callback
  uiStreamError,      \* history: ui.onError was given an event stream error
  uiLog,              \* history: the onIterationStart / onIterationComplete calls
  cParts,             \* classifier alone: the parts it is given
  cOut                \* classifier alone: the last result it returned

vars == <<maxIterations, maxRetries, script, pc, currentIteration, consecutiveMisses,
          summaries, aborted, retries, idleResolve, errorResolve,
          latestLoopControl, req, prompts, paused, pauseResolve, reports,
          hpc, abortRequests, proc, bridge, abortFlag, pending, turnActive,
          msgParts, stream, retryLog, capturedThisTurn, dropped,
          uiStreamError, uiLog,
          cParts, cOut>>

cfgVars == <<maxIterations, maxRetries, script>>
runtimeVars == <<pending, turnActive, msgParts, stream>>
uiVars == <<paused, pauseResolve>>
sigVars == <<aborted, hpc, abortRequests, proc>>
bridgeHist == <<dropped, uiStreamError>>
waitHist == <<retryLog, capturedThisTurn, dropped, uiStreamError>>
histVars == <<retryLog, capturedThisTurn, dropped, uiStreamError, uiLog>>
fnVars == <<cParts, cOut>>

\* ---- status classifier (events.ts) ----

\* Mutant: only the exact tool name is recognised.
IsLoopControlToolMut(tool) == tool = "loop_control"

\* part.tool.endsWith("loop_control"), over the tool names of the model.
IsLoopControlTool(tool) == tool \in {"loop_control", "loop_loop_control"}

\* (input.status as LoopStatus) ?? "unknown"
StatusOf(raw) == IF raw = Missing THEN "unknown" ELSE raw

\* input.message ?? "": a text is the sequence of its pieces, "" has none.
MessageOf(raw) == IF raw = Missing THEN << >> ELSE <<raw>>

\* No call of the classifier has returned yet.
NotRun == [by |-> "none", i |-> 0, result |-> [status |-> Absent, message |-> << >>]]

\* null, where a LoopControlResult is expected.
NoResult == [status |-> Absent, message |-> << >>]

\* The LoopControlResult built from a completed part.
CompletedResult(part) ==
  [status |-> StatusOf(part.status), message |-> MessageOf(part.message)]

\* The LoopControlResult built from an errored part:
\* `loop_control tool errored: ${part.state.error}`.
ErroredResult(part) ==
  [status |-> "unknown", message |-> <<"loop_control tool errored: ", part.error>>]

\* Mutant: the scan stops at the most recent loop_control part, whatever its
\* state.
RECURSIVE ScanPartsMut(_, _)
ScanPartsMut(parts, i) ==
  IF i = 0 THEN NoResult
  ELSE LET part == parts[i] IN
       IF part.type = "tool" /\ IsLoopControlTool(part.tool)
       THEN IF part.state = "completed" THEN CompletedResult(part)
            ELSE IF part.state = "error" THEN ErroredResult(part)
            ELSE NoResult
       ELSE ScanPartsMut(parts, i - 1)

\* The reverse loop of extractLoopControl, from index i down.
RECURSIVE ScanParts(_, _)
ScanParts(parts, i) ==
  IF i = 0 THEN NoResult
  ELSE LET part == parts[i] IN
       IF part.type = "tool" /\ IsLoopControlTool(part.tool)
       THEN IF part.state = "completed" THEN CompletedResult(part)
            ELSE IF part.state = "error" THEN ErroredResult(part)
            ELSE ScanParts(parts, i - 1)
       ELSE ScanParts(parts, i - 1)

\* Mutant: a turn without a loop_control part classifies to "unknown".
ExtractResultMut(parts) ==
  IF ScanParts(parts, Len(parts)) = NoResult
  THEN [status |-> "unknown", message |-> << >>]
  ELSE ScanParts(parts, Len(parts))

\* extractLoopControl(parts): a LoopControlResult or null.
ExtractResult(parts) == ScanParts(parts, Len(parts))

\* The status of a LoopControlResult, which is all loopMain reads of it.
StatusIn(result) == result.status

ExtractLoopControl(parts) == StatusIn(ExtractResult(parts))

\* The inline detection of subscribeToEvents for one updated part: the
\* LoopControlResult passed to callbacks.onLoopControl, if it is called.
InlineResult(part) ==
  IF part.type = "tool" /\ IsLoopControlTool(part.tool) /\ part.state = "completed"
  THEN CompletedResult(part)
  ELSE IF part.type = "tool" /\ IsLoopControlTool(part.tool) /\ part.state = "error"
  THEN ErroredResult(part)
  ELSE NoResult

InlineVerdict(part) == StatusIn(InlineResult(part))

\* Mutant: a verdict already captured is kept.
LatestAfterMut(latest, part) ==
  IF latest # Absent THEN latest ELSE InlineVerdict(part)

\* eventState.latestLoopControl after the bridge handled an updated part:
\* onLoopControl, if it is called, assigns its result.
LatestAfter(latest, part) ==
  IF InlineVerdict(part) # Absent THEN InlineVerdict(part) ELSE latest


\* ---- orchestrator helpers (loopMain) ----

\* Mutant: an "unknown" verdict stops the loop too.
IsTerminalStatusUnknownMut(status) == status \in {"complete", "blocked", "unknown"}

\* Mutant: "blocked" does not stop the loop.
IsTerminalStatusMut(status) == status \in {"complete"}

\* if (loopResult.status === "complete" || loopResult.status === "blocked") break
IsTerminalStatus(status) == status \in {"complete", "blocked"}

\* Mutant: only a "progress" verdict resets the miss counter.
NextMissesMut(loopResult, misses) ==
  IF loopResult = "progress" THEN 0 ELSE misses + 1

\* if (loopResult) consecutiveMisses = 0 else consecutiveMisses++
NextMisses(loopResult, misses) ==
  IF loopResult # Absent THEN 0 ELSE misses + 1

\* Mutant: the budget test is off by one.
BudgetExhaustedMut(nextIteration, max) == nextIteration > max + 1

\* currentIteration++; if (currentIteration > config.maxIterations) break
BudgetExhausted(nextIteration, max) == nextIteration > max

\* Mutant: the summary is numbered after the increment of currentIteration.
NewSummaryMut(iteration, loopResult) ==
  [iteration |-> iteration + 1, status |-> loopResult]

\* The summary pushed for one iteration.
NewSummary(iteration, loopResult) ==
  [iteration |-> iteration, status |-> loopResult]

\* Mutant: the captured verdict is ignored, only the pulled parts count.
ReconcilePullOnly(inline, haveData, parts) ==
  IF haveData THEN ExtractLoopControl(parts) ELSE Absent

\* Mutant: no fallback to the pulled parts.
ReconcileMut(inline, haveData, parts) == inline

\* let loopResult = eventState.latestLoopControl;
\* if (!loopResult && assistantData) loopResult = extractLoopControl(parts)
Reconcile(inline, haveData, parts) ==
  IF inline # Absent THEN inline
  ELSE IF haveData THEN ExtractLoopControl(parts)
  ELSE Absent

\* The text of the first prompt (config.prompt).
InitialPrompt == [text |-> "initial", n |-> 0]

\* Mutant: the last branch does not restate the miss count.
ContinueMsgNoCount(loopResult, misses) ==
  IF loopResult # Absent THEN [text |-> "progress", n |-> 0]
  ELSE IF misses = 1 THEN [text |-> "reminder", n |-> 0]
  ELSE IF misses = 2 THEN [text |-> "important", n |-> 0]
  ELSE [text |-> "critical", n |-> 0]

\* Mutant: the branch for two misses is missing.
ContinueMsgMut(loopResult, misses) ==
  IF loopResult # Absent THEN [text |-> "progress", n |-> 0]
  ELSE IF misses = 1 THEN [text |-> "reminder", n |-> 0]
  ELSE [text |-> "critical", n |-> misses]

\* continueMsg, by the branch of the if chain that builds it; the last branch
\* embeds consecutiveMisses in the text.
ContinueMsg(loopResult, misses) ==
  IF loopResult # Absent THEN [text |-> "progress", n |-> 0]
  ELSE IF misses = 1 THEN [text |-> "reminder", n |-> 0]
  ELSE IF misses = 2 THEN [text |-> "important", n |-> 0]
  ELSE [text |-> "critical", n |-> misses]

\* Mutant: the schedule table has no fallback beyond its last entry.
RetryDelayMut(retryNum) ==
  IF retryNum = 0 THEN 0 ELSE IF retryNum = 1 THEN 5000
  ELSE IF retryNum = 2 THEN 15000 ELSE 0

\* const delay = [0, 5000, 15000][retryNum] ?? 15000
RetryDelay(retryNum) ==
  IF retryNum = 0 THEN 0 ELSE IF retryNum = 1 THEN 5000 ELSE 15000

\* Mutant: the exhaustion test lets one more error through.
RetriesExhaustedMut(n, max) == n > max

\* retries++; if (retries >= maxRetries) return "error"
RetriesExhausted(n, max) == n >= max

\* onRetry(retryNum) called in an iteration: the delay it sleeps before it
\* sends the retry prompt.
RetryCall(iteration, retryNum) ==
  [iteration |-> iteration, retryNum |-> retryNum, delay |-> RetryDelay(retryNum)]

\* ---- the progress calls of the UI ----

\* Mutant: the index passed is the one of the iteration before.
OnIterationStartMut(log, k) == Append(log, [call |-> "start", index |-> k - 1])

\* ui.onIterationStart(currentIteration, config.maxIterations)
OnIterationStart(log, k) == Append(log, [call |-> "start", index |-> k])

\* ui.onIterationComplete(summary), summary.iteration = currentIteration
OnIterationComplete(log, k) == Append(log, [call |-> "complete", index |-> k])

\* ---- the final report (ui.onLoopComplete) ----

\* Mutant: the result is read from the first summary.
FinalResultMut(recs) ==
  IF Len(recs) = 0 THEN "incomplete"
  ELSE LET first == recs[1].status IN
       IF first = "complete" THEN "complete"
       ELSE IF first = "blocked" THEN "blocked"
       ELSE "incomplete"

\* lastStatus = summaries[summaries.length - 1]?.status, then the if chain.
FinalResult(recs) ==
  IF Len(recs) = 0 THEN "incomplete"
  ELSE LET last == recs[Len(recs)].status IN
       IF last = "complete" THEN "complete"
       ELSE IF last = "blocked" THEN "blocked"
       ELSE "incomplete"

Report(by, cause, recs) ==
  [by |-> by, cause |-> cause, records |-> recs, result |-> FinalResult(recs)]

\* ---- initial state ----

\* loopMain's locals, the UI, the bridge and the runtime before the first
\* prompt: signal handlers registered, subscribeToEvents returned.
InitState ==
  /\ pc = "start"
  /\ currentIteration = 0
  /\ consecutiveMisses = 0
  /\ summaries = << >>
  /\ aborted = FALSE
  /\ retries = 0
  /\ idleResolve = FALSE
  /\ errorResolve = FALSE
  /\ latestLoopControl = Absent
  /\ req = "none"
  /\ prompts = << >>
  /\ paused = FALSE
  /\ pauseResolve = FALSE
  /\ reports = << >>
  /\ hpc = "idle"
  /\ abortRequests = 0
  /\ proc = "running"
  /\ abortFlag = FALSE
  /\ pending = 0
  /\ turnActive = FALSE
  /\ msgParts = << >>
  /\ stream = << >>
  /\ retryLog = << >>
  /\ capturedThisTurn = FALSE
  /\ dropped = {}
  /\ uiStreamError = FALSE
  /\ uiLog = << >>

\* The classifier has been given nothing.
ClassifierIdle == cParts = << >> /\ cOut = NotRun

\* parseConfig: --max-iterations >= 1, --max-retries >= 0.
Init ==
  /\ maxIterations \in 1..MaxIter
  /\ maxRetries \in 0..MaxRetriesCfg
  /\ script = << >>
  /\ bridge = "connecting"
  /\ ClassifierIdle
  /\ InitState

Running == proc = "running"

\* ---- loopMain ----

\* Leaving the while loop: finally { eventSub.abort() }, then ui.onLoopComplete.
ExitLoop(cause, recs) ==
  /\ abortFlag' = TRUE
  /\ reports' = Append(reports, Report("loop", cause, recs))
  /\ pc' = "done"
  /\ req' = "none"

\* currentIteration = 1; sendPrompt(config.prompt) is called.
Start ==
  /\ Running /\ pc = "start"
  /\ currentIteration' = 1
  /\ uiLog' = OnIterationStart(uiLog, 1)
  /\ prompts' = Append(prompts, InitialPrompt)
  /\ req' = "inflight"
  /\ pc' = "sendInit"
  /\ UNCHANGED <<fnVars, waitHist, cfgVars, runtimeVars, uiVars, sigVars, consecutiveMisses,
                 summaries, retries, idleResolve, errorResolve,
                 latestLoopControl, reports, abortFlag, bridge>>

\* Mutant: the error is caught and the loop ends with its final report.
SendPromptThrowsMut ==
  /\ Running /\ pc \in {"sendInit", "sendCont", "sendRetry"} /\ req = "rejected"
  /\ abortFlag' = TRUE
  /\ pc' = IF pc = "sendInit" THEN "failedSetup" ELSE "failed"
  /\ req' = "none"
  /\ reports' = Append(reports, Report("loop", "error", summaries))
  /\ UNCHANGED <<fnVars, histVars, cfgVars, runtimeVars, uiVars, sigVars, currentIteration,
                 consecutiveMisses, summaries, retries, idleResolve,
                 errorResolve, latestLoopControl, prompts, bridge>>

\* promptAsync returned an error: sendPrompt throws, loopMain's finally runs
\* and the error leaves loopMain.
SendPromptThrows ==
  /\ Running /\ pc \in {"sendInit", "sendCont", "sendRetry"} /\ req = "rejected"
  /\ abortFlag' = TRUE
  /\ pc' = IF pc = "sendInit" THEN "failedSetup" ELSE "failed"
  /\ req' = "none"
  /\ UNCHANGED <<fnVars, histVars, cfgVars, runtimeVars, uiVars, sigVars, currentIteration,
                 consecutiveMisses, summaries, retries, idleResolve,
                 errorResolve, latestLoopControl, prompts, reports, bridge>>

\* Mutant: the error count is kept from one wait to the next.
FreshRetriesMut == retries

\* let retries = 0, at each call of waitForIdleOrError.
FreshRetries == 0

\* The prompt of an iteration was accepted: the while condition is tested,
\* latestLoopControl is reset and waitForIdleOrError registers its resolvers.
LoopTop ==
  /\ Running /\ pc \in {"sendInit", "sendCont"} /\ req = "accepted"
  /\ IF currentIteration <= maxIterations /\ ~aborted
     THEN /\ latestLoopControl' = Absent
          /\ retries' = FreshRetries
          /\ idleResolve' = TRUE
          /\ errorResolve' = TRUE
          /\ pc' = "waiting"
          /\ req' = "none"
          /\ UNCHANGED <<reports, abortFlag>>
     ELSE /\ ExitLoop("aborted", summaries)
          /\ UNCHANGED <<latestLoopControl, retries, idleResolve, errorResolve>>
  /\ UNCHANGED <<fnVars, histVars, cfgVars, runtimeVars, uiVars, sigVars, currentIteration,
                 consecutiveMisses, summaries, prompts, bridge>>

\* ui.onIterationStart(currentIteration), then the prompt for the iteration
\* is composed and sendPrompt is called.
SendContinuation(loopResult, misses, k, log) ==
  /\ uiLog' = OnIterationStart(log, k)
  /\ prompts' = Append(prompts, ContinueMsg(loopResult, misses))
  /\ req' = "inflight"
  /\ pc' = "sendCont"

\* Mutant: the loop never looks at the pause state.
IsPausedMut == FALSE

\* ui.isPaused(): TuiUI returns _paused.
IsPaused == paused

\* getLatestAssistantParts returned: the iteration is recorded and the loop
\* decides to stop, to pause or to prompt again.
FetchReturnWith(haveData) ==
  /\ Running /\ pc = "fetching"
  /\   LET loopResult == Reconcile(latestLoopControl, haveData, msgParts)
           recs == Append(summaries, NewSummary(currentIteration, loopResult))
           misses == NextMisses(loopResult, consecutiveMisses)
           log == OnIterationComplete(uiLog, currentIteration)
       IN /\ summaries' = recs
          /\ consecutiveMisses' = misses
          /\ IF loopResult # Absent /\ IsTerminalStatus(loopResult)
             THEN /\ ExitLoop("verdict", recs)
                  /\ uiLog' = log
                  /\ UNCHANGED <<currentIteration, prompts, pauseResolve>>
             ELSE /\ currentIteration' = currentIteration + 1
                  /\ IF BudgetExhausted(currentIteration + 1, maxIterations)
                     THEN /\ ExitLoop("budget", recs)
                          /\ uiLog' = log
                          /\ UNCHANGED <<prompts, pauseResolve>>
                     ELSE IF IsPaused
                     THEN /\ pauseResolve' = TRUE
                          /\ pc' = "paused"
                          /\ uiLog' = log
                          /\ UNCHANGED <<prompts, req, reports, abortFlag>>
                     ELSE /\ SendContinuation(loopResult, misses, currentIteration + 1, log)
                          /\ UNCHANGED <<pauseResolve, reports, abortFlag>>
  /\ UNCHANGED <<fnVars, waitHist, cfgVars, runtimeVars, sigVars, paused, retries, idleResolve,
                 errorResolve, latestLoopControl, bridge>>

\* The messages query answers with data or with an error.
FetchReturn == \E haveData \in BOOLEAN : FetchReturnWith(haveData)

\* ---- TuiUI: the pause key ----

\* Key 'p': _paused is flipped; on unpause the waiter is resolved and cleared
\* and loopMain goes on to send the continuation prompt.
TogglePause ==
  /\ Running
  /\ paused' = ~paused
  /\ IF paused /\ pauseResolve
     THEN /\ pauseResolve' = FALSE
          /\ IF pc = "paused"
             THEN SendContinuation(summaries[Len(summaries)].status, consecutiveMisses,
                                   currentIteration, uiLog)
             ELSE UNCHANGED <<prompts, req, pc, uiLog>>
     ELSE UNCHANGED <<pauseResolve, prompts, req, pc, uiLog>>
  /\ UNCHANGED <<fnVars, waitHist, cfgVars, runtimeVars, sigVars, currentIteration,
                 consecutiveMisses, summaries, retries, idleResolve,
                 errorResolve, latestLoopControl, reports, abortFlag, bridge>>


\* ---- events of the push stream ----

\* A session of the same runtime that is not the one loopMain created.
OtherSession == "ses_other"

EventKinds ==
  {"session.idle", "session.error", "session.status", "message.part.updated"}

\* The sessionID field is the identifier the bridge compares:
\* evt.properties.sessionID, and part.sessionID for message.part.updated.
IdleEvent == [type |-> "session.idle", sessionID |-> TargetSession, part |-> NoPart]
StatusEvent == [type |-> "session.status", sessionID |-> TargetSession, part |-> NoPart]
ErrorEvent == [type |-> "session.error", sessionID |-> TargetSession, part |-> NoPart]
PartEvent(part) ==
  [type |-> "message.part.updated", sessionID |-> TargetSession, part |-> part]

\* An event the runtime publishes reaches the stream once the subscription is
\* established; nobody reads it after the consuming loop has ended.
Publish(queue, ev) == IF bridge = "open" THEN Append(queue, ev) ELSE queue

\* ---- subscribeToEvents: the background loop ----

\* client.event.subscribe() resolves inside the background task; loopMain
\* does not wait for it and has sent the first prompt by then.
BridgeConnect ==
  /\ Running /\ bridge = "connecting" /\ pc # "start"
  /\ bridge' = "open"
  /\ UNCHANGED <<fnVars, histVars, cfgVars, runtimeVars, uiVars, sigVars, pc, currentIteration,
                 consecutiveMisses, summaries, retries, idleResolve,
                 errorResolve, latestLoopControl, req, prompts, reports,
                 abortFlag>>

\* Mutant: the cancellation flag is never looked at.
NotAbortedMut == TRUE

\* !abortController.signal.aborted
NotAborted == ~abortFlag

\* if (abortController.signal.aborted) break
BridgeBreak ==
  /\ Running /\ bridge = "open" /\ stream # << >> /\ ~NotAborted
  /\ bridge' = "stopped"
  /\ stream' = << >>
  /\ UNCHANGED <<fnVars, histVars, cfgVars, uiVars, sigVars, pending, turnActive, msgParts, pc,
                 currentIteration, consecutiveMisses, summaries, retries,
                 idleResolve, errorResolve, latestLoopControl, req, prompts,
                 reports, abortFlag>>

\* Mutant: the bridge dispatches the events of every session.
ForTargetMut(ev) == TRUE

\* evt.properties.sessionID === targetSessionID
ForTarget(ev) == ev.sessionID = TargetSession

\* The loop reads the next event and its case calls a callback.
Deliverable(type) ==
  /\ Running /\ bridge = "open" /\ stream # << >> /\ NotAborted
  /\ Head(stream).type = type
  /\ ForTarget(Head(stream))

\* The loop reads an event of another session: no case calls anything.
BridgeDrop ==
  /\ Running /\ bridge = "open" /\ stream # << >> /\ NotAborted
  /\ ~ForTarget(Head(stream))
  /\ stream' = Tail(stream)
  /\ dropped' = dropped \cup {Head(stream).type}
  /\ UNCHANGED <<fnVars, retryLog, capturedThisTurn, uiStreamError, uiLog, cfgVars, uiVars,
                 sigVars, pending, turnActive, msgParts, pc, currentIteration,
                 consecutiveMisses, summaries, retries, idleResolve,
                 errorResolve, latestLoopControl, req, prompts, reports,
                 abortFlag, bridge>>

\* Mutant: the status callback resets the miss counter.
OnStatusMut ==
  /\ Deliverable("session.status")
  /\ stream' = Tail(stream)
  /\ consecutiveMisses' = 0
  /\ UNCHANGED <<fnVars, histVars, cfgVars, uiVars, sigVars, pending, turnActive, msgParts,
                 pc, currentIteration, summaries, retries,
                 idleResolve, errorResolve, latestLoopControl, req, prompts,
                 reports, abortFlag, bridge>>

\* session.status -> callbacks.onStatus: the UI shows the status.
OnStatus ==
  /\ Deliverable("session.status")
  /\ stream' = Tail(stream)
  /\ UNCHANGED <<fnVars, histVars, cfgVars, uiVars, sigVars, pending, turnActive, msgParts,
                 pc, currentIteration, consecutiveMisses, summaries, retries,
                 idleResolve, errorResolve, latestLoopControl, req, prompts,
                 reports, abortFlag, bridge>>

\* Mutant: the idle resolver is called and not cleared.
OnIdleMut ==
  /\ Deliverable("session.idle")
  /\ stream' = Tail(stream)
  /\ pc' = IF idleResolve /\ pc = "waiting" THEN "fetching" ELSE pc
  /\ UNCHANGED <<fnVars, histVars, cfgVars, uiVars, sigVars, pending, turnActive, msgParts,
                 currentIteration, consecutiveMisses, summaries, retries,
                 idleResolve, errorResolve, latestLoopControl, req, prompts,
                 reports, abortFlag, bridge>>

\* session.idle -> callbacks.onIdle: the idle resolver, if set, is called and
\* cleared; a pending wait returns "idle" and loopMain calls
\* getLatestAssistantParts.
OnIdle ==
  /\ Deliverable("session.idle")
  /\ stream' = Tail(stream)
  /\ idleResolve' = FALSE
  /\ pc' = IF idleResolve /\ pc = "waiting" THEN "fetching" ELSE pc
  /\ UNCHANGED <<fnVars, histVars, cfgVars, uiVars, sigVars, pending, turnActive, msgParts,
                 currentIteration, consecutiveMisses, summaries, retries,
                 errorResolve, latestLoopControl, req, prompts, reports,
                 abortFlag, bridge>>

\* The two texts onError is given.
SessionError == "session error"
StreamError == "Event stream error"

\* Mutant: the resolver is called whatever the session id.
ErrorResolvesMut(sid) == errorResolve

\* if (_sid && eventState.errorResolve)
ErrorResolves(sid) == sid # "" /\ errorResolve

\* The onError callback of loopMain: the error resolver, if set and the id is
\* not empty, is called and cleared, and a pending wait counts the error and
\* either gives up, sleeps the backoff delay or re-sends at once; otherwise
\* the error goes to ui.onError.
OnErrorCallback(sid, error) ==
  IF ErrorResolves(sid)
  THEN /\ errorResolve' = FALSE
       /\ UNCHANGED uiStreamError
       /\ IF pc = "waiting"
          THEN /\ retries' = retries + 1
               /\ IF RetriesExhausted(retries + 1, maxRetries)
                  THEN /\ ExitLoop("retries", summaries)
                       /\ UNCHANGED retryLog
                  ELSE /\ retryLog' = Append(IF retries = 0 THEN << >> ELSE retryLog,
                                              RetryCall(currentIteration, retries))
                       /\ IF RetryDelay(retries) > 0
                          THEN pc' = "backoff" /\ req' = req
                          ELSE pc' = "sendRetry" /\ req' = "inflight"
                       /\ UNCHANGED <<reports, abortFlag>>
          ELSE UNCHANGED <<retries, pc, req, reports, abortFlag, retryLog>>
  ELSE /\ uiStreamError' = (uiStreamError \/ error = StreamError)
       /\ UNCHANGED <<errorResolve, retries, pc, req, reports, abortFlag, retryLog>>

\* session.error -> callbacks.onError(evt.properties.sessionID, error).
OnError ==
  /\ Deliverable("session.error")
  /\ stream' = Tail(stream)
  /\ OnErrorCallback(Head(stream).sessionID, SessionError)
  /\ UNCHANGED <<fnVars, dropped, capturedThisTurn, uiLog, cfgVars, uiVars, sigVars, pending, turnActive, msgParts,
                 currentIteration, consecutiveMisses, summaries, idleResolve,
                 latestLoopControl, prompts, bridge>>

\* subscribe() rejects or the stream throws: the catch block calls
\* callbacks.onError("", "Event stream error: ...") unless abort() was called,
\* and the background task ends; events published later are read by nobody.
StreamFails ==
  /\ Running /\ bridge \in {"connecting", "open"} /\ pc # "start"
  /\ bridge' = "failed"
  /\ stream' = << >>
  /\ IF NotAborted
     THEN OnErrorCallback("", StreamError)
     ELSE UNCHANGED <<errorResolve, uiStreamError, retries, pc, req, reports,
                      abortFlag, retryLog>>
  /\ UNCHANGED <<fnVars, dropped, capturedThisTurn, uiLog, cfgVars, uiVars, sigVars, pending, turnActive, msgParts,
                 currentIteration, consecutiveMisses, summaries, idleResolve,
                 latestLoopControl, prompts>>

\* message.part.updated -> callbacks.onLoopControl for a completed or errored
\* loop_control part.
OnPartUpdated ==
  /\ Deliverable("message.part.updated")
  /\ stream' = Tail(stream)
  /\ LET v == InlineVerdict(Head(stream).part) IN
       /\ latestLoopControl' = LatestAfter(latestLoopControl, Head(stream).part)
       /\ capturedThisTurn' = (v # Absent \/ capturedThisTurn)
  /\ UNCHANGED <<fnVars, bridgeHist, retryLog, uiLog, cfgVars, uiVars, sigVars, pending, turnActive, msgParts, pc,
                 currentIteration, consecutiveMisses, summaries, retries,
                 idleResolve, errorResolve, req, prompts, reports, abortFlag,
                 bridge>>

\* The stream ends by itself: the for await loop and the background task end,
\* no callback is called.
StreamEnds ==
  /\ Running /\ bridge = "open"
  /\ bridge' = "ended"
  /\ stream' = << >>
  /\ UNCHANGED <<fnVars, histVars, cfgVars, uiVars, sigVars, pending, turnActive, msgParts,
                 pc, currentIteration, consecutiveMisses, summaries, retries,
                 idleResolve, errorResolve, latestLoopControl, req, prompts,
                 reports, abortFlag>>

\* The abort function of the returned handle, called by whoever holds it, at
\* any time after subscribeToEvents returned: abortController.abort().
EventSubAbort ==
  /\ Running /\ pc # "start"
  /\ abortFlag' = TRUE
  /\ UNCHANGED <<fnVars, histVars, cfgVars, runtimeVars, uiVars, sigVars, pc, currentIteration,
                 consecutiveMisses, summaries, retries, idleResolve,
                 errorResolve, latestLoopControl, req, prompts, reports,
                 bridge>>

\* ---- waitForIdleOrError: the retry path ----

\* sleep(delay) elapsed: the retry prompt is sent.
BackoffElapsed ==
  /\ Running /\ pc = "backoff"
  /\ pc' = "sendRetry"
  /\ req' = "inflight"
  /\ UNCHANGED <<fnVars, histVars, cfgVars, runtimeVars, uiVars, sigVars, currentIteration,
                 consecutiveMisses, summaries, retries, idleResolve,
                 errorResolve, latestLoopControl, prompts, reports, abortFlag,
                 bridge>>

\* The retry prompt was accepted: onRetry returns and the while (true) loop
\* registers the resolvers of a new promise.
RetryResent ==
  /\ Running /\ pc = "sendRetry" /\ req = "accepted"
  /\ idleResolve' = TRUE
  /\ errorResolve' = TRUE
  /\ pc' = "waiting"
  /\ req' = "none"
  /\ UNCHANGED <<fnVars, histVars, cfgVars, runtimeVars, uiVars, sigVars, currentIteration,
                 consecutiveMisses, summaries, retries, latestLoopControl,
                 prompts, reports, abortFlag, bridge>>

\* ---- onSignal and the end of the process ----

\* Mutant: the handler has no guard for a second signal.
SignalMut ==
  /\ Running /\ pc # "start"
  /\ aborted' = TRUE
  /\ hpc' = "aborting"
  /\ abortRequests' = abortRequests + 1
  /\ UNCHANGED proc
  /\ UNCHANGED <<fnVars, histVars, cfgVars, runtimeVars, uiVars, pc, currentIteration,
                 consecutiveMisses, summaries, retries, idleResolve,
                 errorResolve, latestLoopControl, req, prompts, reports,
                 abortFlag, bridge>>

\* SIGINT or SIGTERM, handled between two steps of loopMain: the second one
\* exits at once; the first one sets aborted and awaits client.session.abort.
Signal ==
  /\ Running /\ pc # "start"
  /\ IF aborted
     THEN /\ proc' = "exit1_signal"
          /\ UNCHANGED <<aborted, hpc, abortRequests>>
     ELSE /\ aborted' = TRUE
          /\ hpc' = "aborting"
          /\ abortRequests' = abortRequests + 1
          /\ UNCHANGED proc
  /\ UNCHANGED <<fnVars, histVars, cfgVars, runtimeVars, uiVars, pc, currentIteration,
                 consecutiveMisses, summaries, retries, idleResolve,
                 errorResolve, latestLoopControl, req, prompts, reports,
                 abortFlag, bridge>>

\* session.abort settled (its failure is swallowed): onLoopComplete,
\* ui.destroy, process.exit(130).
SignalFinish ==
  /\ Running /\ hpc = "aborting"
  /\ reports' = Append(reports, Report("signal", "interrupt", summaries))
  /\ hpc' = "exited"
  /\ proc' = "exit130"
  /\ UNCHANGED <<fnVars, histVars, cfgVars, runtimeVars, uiVars, aborted, abortRequests, pc,
                 currentIteration, consecutiveMisses, summaries, retries,
                 idleResolve, errorResolve, latestLoopControl, req, prompts,
                 abortFlag, bridge>>

\* run(): after loopMain returned the process ends once nothing is pending;
\* after loopMain threw, run().catch calls process.exit(1).
ProcessEnd ==
  /\ Running
  /\ \/ pc \in {"failed", "failedSetup"} /\ proc' = "exit1_fatal"
     \/ pc = "done" /\ hpc # "aborting" /\ proc' = "exit0"
  /\ UNCHANGED <<fnVars, histVars, cfgVars, runtimeVars, uiVars, aborted, hpc, abortRequests, pc,
                 currentIteration, consecutiveMisses, summaries, retries,
                 idleResolve, errorResolve, latestLoopControl, req, prompts,
                 reports, abortFlag, bridge>>

\* ---- the agent runtime (environment) ----

\* promptAsync: the runtime takes the prompt and answers 204.
RuntimeAccept ==
  /\ Running /\ req = "inflight"
  /\ req' = "accepted"
  /\ pending' = pending + 1
  /\ UNCHANGED <<fnVars, histVars, cfgVars, uiVars, sigVars, turnActive, msgParts, stream, pc,
                 currentIteration, consecutiveMisses, summaries, retries,
                 idleResolve, errorResolve, latestLoopControl, prompts,
                 reports, abortFlag, bridge>>

\* promptAsync: the runtime answers with an error.
RuntimeReject ==
  /\ Running /\ req = "inflight"
  /\ req' = "rejected"
  /\ UNCHANGED <<fnVars, histVars, cfgVars, runtimeVars, uiVars, sigVars, pc, currentIteration,
                 consecutiveMisses, summaries, retries, idleResolve,
                 errorResolve, latestLoopControl, prompts, reports, abortFlag,
                 bridge>>

\* The runtime starts the turn of an accepted prompt: a new assistant message.
RuntimeStartTurn ==
  /\ Running /\ pending > 0 /\ ~turnActive
  /\ turnActive' = TRUE
  /\ msgParts' = << >>
  /\ capturedThisTurn' = FALSE
  /\ UNCHANGED <<fnVars, bridgeHist, retryLog, uiLog, cfgVars, uiVars, sigVars, pending, stream, pc,
                 currentIteration, consecutiveMisses, summaries, retries,
                 idleResolve, errorResolve, latestLoopControl, req, prompts,
                 reports, abortFlag, bridge>>

\* The agent calls loop_control in the running turn.
RuntimeDeclareOf(part) ==
  /\ Running /\ turnActive /\ Len(msgParts) < MaxParts /\ Len(stream) < MaxQueue
  /\ msgParts' = Append(msgParts, part)
  /\ stream' = Publish(stream, PartEvent(part))
  /\ UNCHANGED <<fnVars, histVars, cfgVars, uiVars, sigVars, pending, turnActive, pc,
                 currentIteration, consecutiveMisses, summaries, retries,
                 idleResolve, errorResolve, latestLoopControl, req, prompts,
                 reports, abortFlag, bridge>>

\* The turn ends: the runtime publishes session.idle or session.error.
RuntimeFinishWith(ev) ==
  /\ Running /\ turnActive /\ Len(stream) < MaxQueue
  /\ stream' = Publish(stream, ev)
  /\ turnActive' = FALSE
  /\ pending' = pending - 1
  /\ UNCHANGED <<fnVars, histVars, cfgVars, uiVars, sigVars, msgParts, pc, currentIteration,
                 consecutiveMisses, summaries, retries, idleResolve,
                 errorResolve, latestLoopControl, req, prompts, reports,
                 abortFlag, bridge>>

RuntimeDeclare == \E part \in AgentParts : RuntimeDeclareOf(part)

\* The turn fails and the session goes idle: the runtime publishes
\* session.error and then session.idle for the same turn.
RuntimeFinishErrored ==
  /\ Running /\ turnActive /\ Len(stream) + 2 <= MaxQueue
  /\ stream' = Publish(Publish(stream, ErrorEvent), IdleEvent)
  /\ turnActive' = FALSE
  /\ pending' = pending - 1
  /\ UNCHANGED <<fnVars, histVars, cfgVars, uiVars, sigVars, msgParts, pc, currentIteration,
                 consecutiveMisses, summaries, retries, idleResolve,
                 errorResolve, latestLoopControl, req, prompts, reports,
                 abortFlag, bridge>>

\* The runtime publishes the status of the turn it has just started.
RuntimeStatus ==
  /\ Running /\ turnActive /\ msgParts = << >> /\ Len(stream) < MaxQueue
  /\ \A i \in 1..Len(stream) : stream[i] # StatusEvent
  /\ stream' = Publish(stream, StatusEvent)
  /\ UNCHANGED <<fnVars, histVars, cfgVars, uiVars, sigVars, pending, turnActive, msgParts,
                 pc, currentIteration, consecutiveMisses, summaries, retries,
                 idleResolve, errorResolve, latestLoopControl, req, prompts,
                 reports, abortFlag, bridge>>

\* What another session of the runtime publishes on the shared stream: one
\* event of each kind, the part event carrying a completed loop_control call.
OtherSessionEvents ==
  {[type |-> t, sessionID |-> OtherSession,
    part |-> IF t = "message.part.updated"
             THEN ToolPart("loop_control", "completed", "complete", "m1", "")
             ELSE NoPart] : t \in EventKinds}

\* Another session publishes an event; each kind is published once.
OtherSessionPublish ==
  \E ev \in OtherSessionEvents :
    /\ Running /\ bridge = "open" /\ Len(stream) < MaxQueue
    /\ ev.type \notin dropped
    /\ \A i \in 1..Len(stream) : stream[i] # ev
    /\ stream' = Append(stream, ev)
    /\ UNCHANGED <<fnVars, histVars, cfgVars, uiVars, sigVars, pending, turnActive, msgParts,
                   pc, currentIteration, consecutiveMisses, summaries, retries,
                   idleResolve, errorResolve, latestLoopControl, req, prompts,
                   reports, abortFlag, bridge>>

RuntimeFinish == \E ev \in {IdleEvent, ErrorEvent} : RuntimeFinishWith(ev)

\* ---- specification ----

Next ==
  \/ Start
  \/ SendPromptThrows
  \/ LoopTop
  \/ FetchReturn
  \/ TogglePause
  \/ BridgeConnect
  \/ BridgeBreak
  \/ OnIdle
  \/ OnError
  \/ OnPartUpdated
  \/ BackoffElapsed
  \/ RetryResent
  \/ Signal
  \/ SignalFinish
  \/ ProcessEnd
  \/ RuntimeAccept
  \/ RuntimeReject
  \/ RuntimeStartTurn
  \/ RuntimeDeclare
  \/ RuntimeFinish

Spec == Init /\ [][Next]_vars


\* ---- scenario: an agent that never declares a status and never errors ----

InitSilent ==
  /\ maxIterations \in 1..MaxIterScenario
  /\ maxRetries \in 0..MaxRetriesCfg
  /\ script = << >>
  /\ bridge = "connecting"
  /\ ClassifierIdle
  /\ InitState

NextSilent ==
  \/ Start
  \/ LoopTop
  \/ FetchReturn
  \/ TogglePause
  \/ BridgeConnect
  \/ OnIdle
  \/ ProcessEnd
  \/ RuntimeAccept
  \/ RuntimeStartTurn
  \/ RuntimeFinishWith(IdleEvent)

SilentSpec == InitSilent /\ [][NextSilent]_vars

\* ---- scenario: an agent that declares one scripted status per turn ----

NonTerminalParts == {p \in AgentParts : p.status \notin {"complete", "blocked"}}
TerminalParts == AgentParts \ NonTerminalParts

\* m non-terminal declarations followed by one terminal declaration.
Scripts ==
  UNION {{Append(f, t) : f \in [1..m -> NonTerminalParts], t \in TerminalParts} :
            m \in 0..(MaxIterScenario - 1)}

InitScript ==
  /\ script \in Scripts
  /\ maxIterations \in Len(script)..MaxIterScenario
  /\ maxRetries \in 0..MaxRetriesCfg
  /\ bridge = "connecting"
  /\ ClassifierIdle
  /\ InitState

\* The number of the turn the runtime is running (no prompt is rejected or
\* retried in this scenario).
TurnNo ==
  Len(prompts) - (IF req = "inflight" THEN 1 ELSE 0) - pending + 1

RuntimeDeclareScripted ==
  /\ msgParts = << >>
  /\ TurnNo \in 1..Len(script)
  /\ RuntimeDeclareOf(script[TurnNo])

RuntimeFinishScripted ==
  /\ Len(msgParts) = 1
  /\ RuntimeFinishWith(IdleEvent)

NextScript ==
  \/ Start
  \/ LoopTop
  \/ FetchReturnWith(TRUE)
  \/ TogglePause
  \/ BridgeConnect
  \/ OnIdle
  \/ OnPartUpdated
  \/ ProcessEnd
  \/ RuntimeAccept
  \/ RuntimeStartTurn
  \/ RuntimeDeclareScripted
  \/ RuntimeFinishScripted

ScriptSpec == InitScript /\ [][NextScript]_vars

\* ---- liveness: a runtime that answers every prompt, a stream that delivers ----

\* No prompt is rejected, nobody pauses or interrupts, and the runtime takes
\* a prompt only once the subscription is established, so that every event
\* it publishes is on the stream.
InitLive ==
  /\ maxIterations \in 1..MaxIter
  /\ maxRetries \in 0..MaxRetriesCfg
  /\ script = << >>
  /\ bridge = "connecting"
  /\ ClassifierIdle
  /\ InitState

RuntimeAcceptSubscribed == bridge = "open" /\ RuntimeAccept

NextLive ==
  \/ Start
  \/ LoopTop
  \/ FetchReturn
  \/ BridgeConnect
  \/ OnIdle
  \/ OnError
  \/ OnPartUpdated
  \/ BackoffElapsed
  \/ RetryResent
  \/ ProcessEnd
  \/ RuntimeAcceptSubscribed
  \/ RuntimeStartTurn
  \/ RuntimeDeclare
  \/ RuntimeFinish

\* Every step that can be taken is eventually taken: the event loop runs
\* ready callbacks, the runtime answers, the stream delivers.
LiveSpec == InitLive /\ [][NextLive]_vars /\ WF_vars(NextLive)

\* ---- scenario: a stream shared with another session ----

\* One iteration: every position of loopMain and of the retry path is visited.
InitForeign ==
  /\ maxIterations = 1
  /\ maxRetries \in 0..MaxRetriesCfg
  /\ script = << >>
  /\ bridge = "connecting"
  /\ ClassifierIdle
  /\ InitState

NextForeign ==
  \/ Start
  \/ LoopTop
  \/ FetchReturn
  \/ BridgeConnect
  \/ BridgeDrop
  \/ OnIdle
  \/ OnError
  \/ OnStatus
  \/ OnPartUpdated
  \/ BackoffElapsed
  \/ RetryResent
  \/ ProcessEnd
  \/ RuntimeAccept
  \/ RuntimeStartTurn
  \/ RuntimeDeclare
  \/ RuntimeFinish
  \/ RuntimeStatus
  \/ OtherSessionPublish

ForeignSpec == InitForeign /\ [][NextForeign]_vars

\* ---- scenario: the push stream fails ----

NextTransport == NextLive \/ StreamFails

\* As LiveSpec; the failure of the stream is possible, never required.
TransportSpec == InitLive /\ [][NextTransport]_vars /\ WF_vars(NextLive)

\* ---- scenario: the subscription handle is aborted at any time ----

NextAbort ==
  \/ NextLive
  \/ BridgeBreak
  \/ StreamFails
  \/ StreamEnds
  \/ EventSubAbort

AbortSpec == InitLive /\ [][NextAbort]_vars

\* ---- scenario: every kind of event and the failure of the stream ----

NextBridge ==
  \/ NextTransport
  \/ OnStatus
  \/ RuntimeStatus

BridgeSpec == InitLive /\ [][NextBridge]_vars

\* ---- scenario: a runtime that goes idle after a failed turn ----

NextStaleIdle ==
  \/ Start
  \/ LoopTop
  \/ FetchReturn
  \/ BridgeConnect
  \/ OnIdle
  \/ OnError
  \/ BackoffElapsed
  \/ RetryResent
  \/ ProcessEnd
  \/ RuntimeAcceptSubscribed
  \/ RuntimeStartTurn
  \/ RuntimeFinishWith(IdleEvent)
  \/ RuntimeFinishErrored

StaleIdleSpec == InitLive /\ [][NextStaleIdle]_vars

\* ---- scenario: turns that fail, an agent that declares nothing ----

InitRetry ==
  /\ maxIterations \in 1..MaxIter
  /\ maxRetries \in 0..MaxRetriesScenario
  /\ script = << >>
  /\ bridge = "connecting"
  /\ ClassifierIdle
  /\ InitState

NextRetry ==
  \/ Start
  \/ LoopTop
  \/ FetchReturn
  \/ BridgeConnect
  \/ OnIdle
  \/ OnError
  \/ BackoffElapsed
  \/ RetryResent
  \/ ProcessEnd
  \/ RuntimeAccept
  \/ RuntimeStartTurn
  \/ RuntimeFinish

RetrySpec == InitRetry /\ [][NextRetry]_vars

\* ---- the classifier alone: extractLoopControl and the inline detection ----

\* Parts of a turn: loop_control calls in each state, with each input status
\* (the three of the tool's schema, another string, none), with and without a
\* message, under the plain and a prefixed tool name; other tools; text.
ClassifierParts ==
  {ToolPart("loop_control", "completed", st, m, "") :
      st \in {"complete", "blocked", "progress", "done", Missing},
      m \in {"m1", "m2"}}
  \cup {ToolPart("loop_control", "completed", "complete", Missing, ""),
        ToolPart("loop_loop_control", "completed", "complete", "m1", ""),
        ToolPart("loop_loop_control", "completed", "progress", "m2", ""),
        ToolPart("loop_control", "error", "complete", "m1", "boom"),
        ToolPart("loop_control", "running", "blocked", "m1", ""),
        ToolPart("loop_control", "pending", Missing, Missing, ""),
        ToolPart("bash", "completed", Missing, Missing, ""),
        ToolPart("loop_control_extra", "completed", "complete", "m1", ""),
        [type |-> "text", tool |-> "", state |-> "", status |-> Missing,
         message |-> Missing, error |-> ""]}

InitClassify ==
  /\ cParts \in UNION {[1..n -> ClassifierParts] : n \in 0..MaxLen}
  /\ cOut = NotRun
  /\ maxIterations = 1
  /\ maxRetries = 0
  /\ script = << >>
  /\ bridge = "connecting"
  /\ InitState

\* extractLoopControl(parts) is called and returns.
ClassifyTurn ==
  /\ cOut' = [by |-> "extract", i |-> 0, result |-> ExtractResult(cParts)]
  /\ UNCHANGED <<cParts, histVars, cfgVars, runtimeVars, uiVars, sigVars, pc,
                 currentIteration, consecutiveMisses, summaries, retries,
                 idleResolve, errorResolve, latestLoopControl, req, prompts,
                 reports, abortFlag, bridge>>

\* The bridge inspects the i-th part as an updated part.
DetectInline ==
  /\ \E i \in 1..Len(cParts) :
       cOut' = [by |-> "inline", i |-> i, result |-> InlineResult(cParts[i])]
  /\ UNCHANGED <<cParts, histVars, cfgVars, runtimeVars, uiVars, sigVars, pc,
                 currentIteration, consecutiveMisses, summaries, retries,
                 idleResolve, errorResolve, latestLoopControl, req, prompts,
                 reports, abortFlag, bridge>>

NextClassify ==
  \/ ClassifyTurn
  \/ DetectInline

ClassifySpec == InitClassify /\ [][NextClassify]_vars

\* ---- the inline path alone: the parts arrive as updates, in order ----

\* The bridge handles the update of the next part and onLoopControl, if it
\* is called, stores its result.
DeliverPart ==
  /\ cOut.i < Len(cParts)
  /\ LET part == cParts[cOut.i + 1] IN
       /\ cOut' = [by |-> "inline", i |-> cOut.i + 1, result |-> InlineResult(part)]
       /\ latestLoopControl' = LatestAfter(latestLoopControl, part)
  /\ UNCHANGED <<cParts, histVars, cfgVars, runtimeVars, uiVars, sigVars, pc,
                 currentIteration, consecutiveMisses, summaries, retries,
                 idleResolve, errorResolve, req, prompts, reports, abortFlag,
                 bridge>>

InlineSpec == InitClassify /\ [][DeliverPart]_vars


\* ======================= properties =======================

LastOf(seq) == seq[Len(seq)]
PresentTerminal(status) == status = "complete" \/ status = "blocked"

\* C1: for every maxIterations N >= 1 the run appends at most N records and
\* sends at most N prompts decided by the loop (the initial one and the
\* continuations); once the N-th record is appended the loop has ended
\* instead of sending another prompt.
C1_BudgetBound ==
  /\ Len(summaries) <= maxIterations
  /\ Len(prompts) <= maxIterations
  /\ (Len(summaries) = maxIterations => pc = "done" /\ req = "none")

C1_Witness ==
  /\ maxIterations = 2 /\ pc = "done"
  /\ Len(summaries) = 2 /\ Len(prompts) = 2
  /\ \E i \in 1..Len(reports) : reports[i].cause = "budget"

\* C2: a record whose verdict is complete or blocked is the last record of
\* the run; when it is appended the loop is over, with a report carrying that
\* status as result, and from then on no prompt is sent, no record is
\* appended and the loop stays over.
C2_TerminalVerdictEnds ==
  /\ [](\A i \in 1..Len(summaries) :
          PresentTerminal(summaries[i].status) =>
            /\ i = Len(summaries)
            /\ pc = "done" /\ req = "none"
            /\ \E j \in 1..Len(reports) :
                 /\ reports[j].by = "loop"
                 /\ reports[j].result = summaries[i].status)
  /\ [][pc = "done" =>
          /\ pc' = "done"
          /\ summaries' = summaries
          /\ prompts' = prompts
          /\ req' = req]_vars

C2_Witness ==
  /\ pc = "done" /\ Len(summaries) = 2
  /\ summaries[1].status = "progress"
  /\ summaries[2].status = "blocked"

\* C3: a run that entered the iteration loop ends only by retry exhaustion,
\* budget exhaustion, a terminal verdict or an interrupt, and its final
\* report is emitted exactly once: never twice, and not zero times once the
\* loop or the process has ended (a forced exit by a second interrupt aside).
C3_ReportExactlyOnce ==
  /\ Len(reports) <= 1
  /\ pc # "failed"
  /\ (pc = "done" \/ proc \in {"exit0", "exit130"} => Len(reports) = 1)

\* C4: the first interrupt sets aborted and asks the runtime to abort the
\* session without reporting yet; when that request has settled the handler
\* reports exactly the records appended so far and exits with 130; a second
\* interrupt before that exit ends the process at once with no report.
C4_InterruptHandling ==
  /\ [](hpc # "idle" => aborted /\ abortRequests = 1)
  /\ [](proc = "exit130" =>
          /\ hpc = "exited"
          /\ LastOf(reports).by = "signal"
          /\ LastOf(reports).records = summaries)
  /\ [][/\ (hpc = "idle" /\ hpc' # "idle" =>
              /\ aborted' /\ abortRequests' = abortRequests + 1
              /\ reports' = reports /\ proc' = "running")
        /\ (hpc = "aborting" /\ hpc' = "exited" =>
              /\ Len(reports') = Len(reports) + 1
              /\ proc' = "exit130")
        /\ (aborted /\ abortRequests' # abortRequests => FALSE)
        /\ (proc' = "exit1_signal" /\ proc = "running" =>
              /\ hpc = "aborting"
              /\ reports' = reports)
        /\ (aborted => aborted')]_vars
  /\ [](abortRequests <= 1)

C4_Witness ==
  /\ proc = "exit130" /\ pc = "paused"
  /\ Len(summaries) = 1
  /\ Len(reports) = 1 /\ reports[1].records = summaries

\* C5: with a runtime that answers every prompt by idle or error and a stream
\* that delivers every event, every run eventually terminates; the loop
\* never stays in Waiting forever.
C5_EventuallyTerminated ==
  <>(pc \in {"done", "failed", "failedSetup"} \/ proc # "running")

\* C6: consecutiveMisses is 0 after an iteration with a present verdict and
\* one more after an iteration with an absent verdict: it always equals the
\* length of the trailing streak of absent-verdict records.
RECURSIVE TrailingAbsent(_)
TrailingAbsent(recs) ==
  IF Len(recs) = 0 \/ LastOf(recs).status # Absent THEN 0
  ELSE 1 + TrailingAbsent(SubSeq(recs, 1, Len(recs) - 1))

C6_MissesAreTrailingStreak == consecutiveMisses = TrailingAbsent(summaries)

C6_Witness ==
  /\ Len(summaries) = 2
  /\ summaries[1].status = Absent
  /\ summaries[2].status = "unknown"
  /\ consecutiveMisses = 0

\* C7: the run list holds records numbered 1, 2, ..., n in that order, and
\* it changes only by appending one record: what was appended stays as it is.
C7_ContiguousAppendOnly ==
  /\ [](\A i \in 1..Len(summaries) : summaries[i].iteration = i)
  /\ [][\/ summaries' = summaries
        \/ /\ Len(summaries') = Len(summaries) + 1
           /\ SubSeq(summaries', 1, Len(summaries)) = summaries]_vars

C7_Witness ==
  /\ Len(summaries) = 2
  /\ summaries[1].iteration = 1 /\ summaries[2].iteration = 2

\* The wording the policy prescribes after the k-th consecutive miss.
WordingForMiss(k) ==
  IF k = 1 THEN [text |-> "reminder", n |-> 0]
  ELSE IF k = 2 THEN [text |-> "important", n |-> 0]
  ELSE [text |-> "critical", n |-> k]

\* C8: with an agent that never declares a status and never errors and a
\* budget of N, a finished run has exactly N records, all without verdict,
\* has sent exactly N prompts (the initial one and N-1 continuations), the
\* continuation after the k-th miss has the wording for miss count k, and the
\* result is incomplete by budget exhaustion.
C8_SilentAgentRun ==
  pc = "done" =>
    /\ Len(summaries) = maxIterations
    /\ \A i \in 1..Len(summaries) :
         summaries[i].status = Absent /\ summaries[i].iteration = i
    /\ Len(prompts) = maxIterations
    /\ prompts[1].text = "initial"
    /\ \A k \in 1..(maxIterations - 1) : prompts[k + 1] = WordingForMiss(k)
    /\ Len(reports) = 1
    /\ reports[1].cause = "budget"
    /\ reports[1].result = "incomplete"
    /\ Len(reports[1].records) = maxIterations

C8_Witness ==
  /\ pc = "done" /\ maxIterations = 4
  /\ Len(summaries) = 4 /\ Len(prompts) = 4
  /\ prompts[2].text = "reminder"
  /\ prompts[3].text = "important"
  /\ prompts[4] = [text |-> "critical", n |-> 3]

\* The status a declared part stands for.
DeclaredStatus(part) ==
  IF part.state = "completed" /\ part.status \in {"complete", "blocked", "progress"}
  THEN part.status
  ELSE "unknown"

\* C9: with an agent that declares m present non-terminal verdicts and then
\* complete or blocked, m + 1 <= maxIterations and no errors, consecutiveMisses
\* is 0 in every state, and a finished run has exactly m + 1 records carrying
\* the declared verdicts in order and reports the terminal status as result.
C9_ScriptedRun ==
  /\ consecutiveMisses = 0
  /\ Len(summaries) <= Len(script)
  /\ \A i \in 1..Len(summaries) : summaries[i].status = DeclaredStatus(script[i])
  /\ (pc = "done" =>
        /\ Len(summaries) = Len(script)
        /\ Len(reports) = 1
        /\ reports[1].result = LastOf(script).status
        /\ reports[1].records = summaries)

C9_Witness ==
  /\ pc = "done" /\ Len(script) = 3
  /\ summaries[1].status = "progress"
  /\ summaries[2].status = "progress"
  /\ summaries[3].status = "complete"
  /\ reports[1].result = "complete"

Recorded == LastOf(summaries').status
RecordAppended == Len(summaries') = Len(summaries) + 1

\* C11: when an inline verdict was captured for the current iteration, the
\* messages query is not called in that iteration: loopMain never waits for
\* the answer of getLatestAssistantParts while a captured verdict is there.
C11_NoPullWithInlineVerdict ==
  pc = "fetching" => latestLoopControl = Absent

\* C12: the verdict recorded for an iteration is the inline verdict whenever
\* one is present at reconciliation, whatever the pulled parts classify to;
\* with no inline verdict it is the classification of the latest assistant
\* message's parts, or absent when the pull returns nothing.
C12_InlineVerdictWins ==
  [][RecordAppended =>
       IF latestLoopControl # Absent
       THEN Recorded = latestLoopControl
       ELSE Recorded \in {ExtractLoopControl(msgParts), Absent}]_vars

C12_Witness ==
  /\ pc = "done" /\ pending = 0 /\ ~turnActive
  /\ Len(summaries) = 1
  /\ summaries[1].status = "complete"
  /\ ExtractLoopControl(msgParts) = Absent

\* C13: the inline verdict present when an iteration is reconciled was
\* captured from a declaration of the turn being reconciled, never from an
\* earlier turn (an earlier iteration's, or an errored attempt's that was
\* retried).
C13_InlineVerdictIsFresh ==
  pc = "fetching" /\ latestLoopControl # Absent => capturedThisTurn

\* C14: when the bridge delivered a declaration of the current turn before
\* that turn's idle was honoured, the recorded verdict is that verdict and
\* not absent; the reset at the top of the loop never erases a verdict
\* captured from the current turn.
C14_CapturedVerdictIsRecorded ==
  [][/\ (RecordAppended /\ capturedThisTurn =>
            Recorded # Absent /\ Recorded = ExtractLoopControl(msgParts))
     /\ (latestLoopControl # Absent /\ latestLoopControl' = Absent =>
            ~capturedThisTurn)]_vars

\* The bridge hands a session.idle or session.error event to its callback.
IdleDelivered ==
  /\ stream # << >> /\ stream' = Tail(stream) /\ bridge' = bridge
  /\ Head(stream).type = "session.idle"
ErrorDelivered ==
  /\ stream # << >> /\ stream' = Tail(stream) /\ bridge' = bridge
  /\ Head(stream).type = "session.error"

\* C15: there is one wait at a time, registered by loopMain only when it is
\* not waiting, with both resolvers; a wait is left only by one delivered
\* idle or error event, whose resolver is cleared on use; an idle or error
\* event delivered while loopMain is not waiting changes nothing of the
\* loop's state and registers nothing: it can only clear a stale resolver.
C15_OneWaitOneResolution ==
  /\ [](pc = "waiting" => idleResolve /\ errorResolve)
  /\ [][/\ (pc # "waiting" /\ pc' = "waiting" =>
              /\ pc \in {"sendInit", "sendCont", "sendRetry"}
              /\ idleResolve' /\ errorResolve')
        /\ (pc = "waiting" /\ pc' # "waiting" =>
              \/ IdleDelivered /\ pc' = "fetching" /\ ~idleResolve'
                   /\ retries' = retries
              \/ ErrorDelivered /\ ~errorResolve' /\ retries' = retries + 1)
        /\ ((IdleDelivered \/ ErrorDelivered) /\ pc # "waiting" =>
              /\ UNCHANGED <<pc, retries, currentIteration, consecutiveMisses,
                             summaries, latestLoopControl, req, prompts,
                             reports, aborted, abortFlag, retryLog>>
              /\ (idleResolve' => idleResolve)
              /\ (errorResolve' => errorResolve))]_vars

C15_Witness ==
  /\ pc = "sendRetry" /\ req = "accepted"
  /\ ~idleResolve /\ retries = 1

\* The onRetry calls of the current iteration's wait.
ThisWait == SelectSeq(retryLog, LAMBDA c : c.iteration = currentIteration)
InWait == pc \in {"waiting", "backoff", "sendRetry", "fetching"}
ExhaustedReports == {j \in 1..Len(reports) : reports[j].cause = "retries"}

\* C16: in a wait the error count starts at 0 and grows by one per error, the
\* retry numbered r (from 0) is preceded by a delay of 0s for r = 0, 5s for
\* r = 1 and 15s for r >= 2, and the retry prompt is not sent while the delay
\* runs; with maxRetries = 3, a wait that ended idle after two errors made
\* exactly two retries, with delays 0s and 5s.
C16_RetrySchedule ==
  /\ (InWait =>
        /\ Len(ThisWait) = retries
        /\ \A i \in 1..Len(ThisWait) :
             /\ ThisWait[i].retryNum = i - 1
             /\ ThisWait[i].delay =
                  (IF i = 1 THEN 0 ELSE IF i = 2 THEN 5000 ELSE 15000))
  /\ (pc = "backoff" => req = "none" /\ LastOf(ThisWait).delay > 0)
  /\ (pc = "sendRetry" /\ req = "inflight" /\ Len(ThisWait) = 1 =>
        ThisWait[1].delay = 0)
  /\ (pc = "fetching" /\ maxRetries = 3 /\ retries = 2 =>
        /\ Len(ThisWait) = 2
        /\ ThisWait[1].delay = 0 /\ ThisWait[2].delay = 5000)

C16_Witness ==
  /\ pc = "fetching" /\ maxRetries = 3 /\ retries = 2
  /\ Len(retryLog) = 2
  /\ retryLog[1].delay = 0 /\ retryLog[2].delay = 5000

C18_NRetriesBeforeGivingUp ==
  ExhaustedReports # {} => Len(ThisWait) = maxRetries

\* C19: the retry budget is per iteration: each iteration's wait starts
\* with an error count of 0, whatever the count the previous wait ended
\* with, and a wait gives up only after errors of its own iteration.
C19_RetryBudgetPerIteration ==
  /\ [][(pc = "sendInit" \/ pc = "sendCont") /\ pc' = "waiting" =>
          retries' = 0]_vars
  /\ [](pc \in {"waiting", "backoff", "sendRetry"} =>
          /\ retries = Len(ThisWait)
          /\ (retries = 0 \/ retries < maxRetries))
  /\ [](ExhaustedReports # {} /\ maxRetries >= 1 =>
          Len(ThisWait) = maxRetries - 1)

C19_Witness ==
  /\ pc = "waiting" /\ currentIteration = 2 /\ retries = 0
  /\ maxRetries = 3
  /\ Len(retryLog) = 2
  /\ retryLog[1].iteration = 1 /\ retryLog[2].iteration = 1

\* C20: a record is appended for every turn that completes, also when it
\* ends by retry exhaustion: a run ended by retry exhaustion in iteration k
\* has a record numbered k.
C20_RecordOnExhaustion ==
  \A j \in ExhaustedReports :
    \E i \in 1..Len(reports[j].records) :
      reports[j].records[i].iteration = currentIteration

\* A part that denotes the declare-status action: the tool name is
\* loop_control or a prefixed name ending in loop_control.
IsDeclare(part) ==
  part.type = "tool" /\ part.tool \in {"loop_control", "loop_loop_control"}

\* The index of the most recent part of seq satisfying Test (0 if none).
LastIndex(seq, Test(_)) ==
  LET S == {i \in 1..Len(seq) : Test(seq[i])}
  IN IF S = {} THEN 0 ELSE CHOOSE i \in S : \A j \in S : j <= i

\* C21: when the most recent declare-status part of the turn is completed
\* with input status complete, classify returns status complete with exactly
\* the message provided, under the plain tool name and under a prefixed one.
C21_CompleteIsClassified ==
  cOut.by = "extract" =>
    LET k == LastIndex(cParts, IsDeclare) IN
      k > 0 /\ cParts[k].state = "completed" /\ cParts[k].status = "complete" =>
        /\ cOut.result.status = "complete"
        /\ (cParts[k].message # Missing =>
              cOut.result.message = <<cParts[k].message>>)

C21_Witness ==
  /\ cOut.by = "extract" /\ Len(cParts) = 3
  /\ cParts[1].tool = "loop_control" /\ cParts[1].status = "progress"
  /\ cParts[1].state = "completed"
  /\ cParts[2].tool = "loop_loop_control" /\ cParts[2].status = "complete"
  /\ cParts[3].tool = "bash"
  /\ cOut.result = [status |-> "complete", message |-> <<"m1">>]

\* C22: for a turn with no declare-status part, the empty turn included,
\* classify returns absent and never a verdict with status unknown.
C22_NoDeclareIsAbsent ==
  cOut.by = "extract" /\ LastIndex(cParts, IsDeclare) = 0 =>
    cOut.result = NoResult /\ cOut.result.status # "unknown"

C22_Witness ==
  /\ cOut.by = "extract" /\ Len(cParts) = 2
  /\ cParts[1].tool = "loop_control_extra"
  /\ cParts[2].type = "text"
  /\ cOut.result.status = Absent

\* A declare-status part whose call has ended, by completing or by an error.
IsSettledDeclare(part) == IsDeclare(part) /\ part.state \in {"completed", "error"}

\* What classify returns for the turn made of the k-th part of seq alone.
AloneResult(seq, k) == IF k = 0 THEN NoResult ELSE ExtractResult(<<seq[k]>>)

\* C23 as stated: classify's result depends only on the most recent
\* declare-status part of the turn, whatever its state: it is the result for
\* the turn with every other part removed.
C23_OnlyMostRecentDeclare ==
  cOut.by = "extract" =>
    cOut.result = AloneResult(cParts, LastIndex(cParts, IsDeclare))

\* C23 amended: classify's result depends only on the most recent
\* declare-status part that is completed or errored: running and pending
\* declare-status parts are skipped, every earlier part is ignored.
C23_OnlyMostRecentSettledDeclare ==
  cOut.by = "extract" =>
    cOut.result = AloneResult(cParts, LastIndex(cParts, IsSettledDeclare))

C23_Witness ==
  /\ cOut.by = "extract" /\ Len(cParts) = 3
  /\ IsDeclare(cParts[1]) /\ cParts[1].state = "completed"
  /\ cParts[1].status = "blocked"
  /\ IsDeclare(cParts[2]) /\ cParts[2].state = "completed"
  /\ cParts[2].status = "progress"
  /\ IsDeclare(cParts[3]) /\ cParts[3].state = "running"
  /\ cOut.result.status = "progress"

\* The verdict a part stands for under the classification rule of the
\* specification: unknown for a missing or unrecognised input status.
RuleStatus(part) ==
  IF part.state = "completed" /\ part.status \in {"complete", "blocked", "progress"}
  THEN part.status
  ELSE "unknown"

\* C24: every verdict classify or the inline path produces has a status among
\* complete, blocked, progress, unknown: a completed part with a missing or
\* unrecognised input status gives unknown with the input message, an errored
\* part gives unknown with a message built from the tool error.
C24_VerdictStatusIsKnown ==
  cOut.by # "none" /\ cOut.result # NoResult =>
    LET k == IF cOut.by = "inline" THEN cOut.i
             ELSE LastIndex(cParts, IsSettledDeclare)
    IN /\ cOut.result.status \in {"complete", "blocked", "progress", "unknown"}
       /\ cOut.result.status = RuleStatus(cParts[k])
       /\ (cParts[k].state = "completed" /\ cParts[k].message # Missing =>
             cOut.result.message = <<cParts[k].message>>)
       /\ (cParts[k].state = "error" =>
             cOut.result.message = <<"loop_control tool errored: ", cParts[k].error>>)

\* C25: an absent, unknown or progress verdict never ends the run: when such
\* a verdict is recorded for an iteration k < maxIterations, loopMain goes on
\* to iteration k + 1 and sends its continuation prompt, at once or, if the
\* UI is paused, as soon as it is resumed; the loop reports "by verdict"
\* only for complete or blocked.
C25_NonTerminalVerdictContinues ==
  /\ [](\A j \in 1..Len(reports) :
          reports[j].cause = "verdict" => reports[j].result \in {"complete", "blocked"})
  /\ [][/\ (/\ RecordAppended
             /\ Recorded \in {Absent, "unknown", "progress"}
             /\ currentIteration < maxIterations
             => /\ currentIteration' = currentIteration + 1
                /\ reports' = reports
                /\ \/ pc' = "paused" /\ paused /\ prompts' = prompts
                   \/ /\ pc' = "sendCont" /\ req' = "inflight"
                      /\ Len(prompts') = Len(prompts) + 1)
        /\ (pc = "paused" /\ pc' # "paused"
             => /\ pc' = "sendCont" /\ req' = "inflight"
                /\ Len(prompts') = Len(prompts) + 1)]_vars

C25_Witness ==
  /\ pc = "sendCont" /\ currentIteration = 2
  /\ Len(summaries) = 1 /\ summaries[1].status = "unknown"
  /\ Len(prompts) = 2 /\ Len(reports) = 0

\* The miss count after the first k records.
MissesAfter(k) == TrailingAbsent(SubSeq(summaries, 1, k))
MissClass(m) == IF m >= 3 THEN 3 ELSE m

\* C26: the continuation prompt sent after an iteration with an absent
\* verdict is chosen by the miss count alone: the firm reminder for 1, the
\* escalated reminder for 2, the maximal-urgency message restating the count
\* for 3 and more; prompts chosen for different cases differ.
C26_WordingByMissCount ==
  /\ \A i \in 2..Len(prompts) :
       summaries[i - 1].status = Absent =>
         LET m == MissesAfter(i - 1) IN
           /\ (m = 1 => prompts[i] = [text |-> "reminder", n |-> 0])
           /\ (m = 2 => prompts[i] = [text |-> "important", n |-> 0])
           /\ (m >= 3 => prompts[i] = [text |-> "critical", n |-> m])
  /\ \A i, j \in 2..Len(prompts) :
       MissClass(MissesAfter(i - 1)) # MissClass(MissesAfter(j - 1)) =>
         prompts[i].text # prompts[j].text

C26_Witness ==
  /\ pc = "sendCont" /\ consecutiveMisses = 3
  /\ Len(prompts) = 4
  /\ prompts[2].text = "reminder" /\ prompts[3].text = "important"
  /\ prompts[4] = [text |-> "critical", n |-> 3]

\* C27: the "you previously reported progress" continuation is sent exactly
\* after an iteration whose verdict has status progress, and not after a
\* verdict with status unknown.
C27_ProgressWordingOnlyAfterProgress ==
  \A i \in 2..Len(prompts) :
    prompts[i].text = "progress" <=> summaries[i - 1].status = "progress"

\* What loopMain and its callbacks own: the position, the wait's resolvers,
\* the retry count, the inline verdict and everything recorded or reported.
OrchestratorUntouched ==
  UNCHANGED <<pc, currentIteration, consecutiveMisses, summaries, retries,
              idleResolve, errorResolve, latestLoopControl, req, prompts,
              reports, abortFlag, retryLog, capturedThisTurn, uiStreamError>>

\* C28: the bridge calls a callback only for events of the target session:
\* reading an idle, error, status or part-updated event of another session
\* resolves no wait, sets no inline verdict and changes nothing of the
\* orchestrator; the event is only dropped.
C28_OtherSessionEventsDropped ==
  [][/\ stream # << >>
     /\ Head(stream).sessionID # TargetSession
     /\ stream' = Tail(stream)
     => /\ OrchestratorUntouched
        /\ dropped' = dropped \cup {Head(stream).type}]_vars

C28_Witness ==
  /\ dropped = EventKinds
  /\ pc = "waiting" /\ idleResolve /\ errorResolve
  /\ latestLoopControl = Absent /\ retries = 0

\* C29: a failure of the push stream that abort() did not cause is handed to
\* onError with an empty session id and only shown by the UI: it resolves no
\* wait, is not counted as a turn error and consumes no retry.
C29_StreamErrorOnlyReported ==
  [][bridge # "failed" /\ bridge' = "failed" /\ ~abortFlag
     => /\ uiStreamError'
        /\ UNCHANGED <<pc, currentIteration, consecutiveMisses, summaries,
                       retries, idleResolve, errorResolve, latestLoopControl,
                       req, prompts, reports, abortFlag, retryLog>>]_vars

C29_Witness ==
  /\ bridge = "failed" /\ uiStreamError
  /\ pc = "waiting" /\ errorResolve /\ idleResolve
  /\ retries = 1 /\ Len(retryLog) = 1

\* C30: a failed push stream does not stop the run: a wait whose turn the
\* runtime still completes after the stream has failed comes to an end.
C30_RunSurvivesStreamFailure ==
  (bridge = "failed" /\ pc = "waiting" /\ pending > 0) ~> (pc # "waiting")

\* The same wait while the stream is intact (holds, also in LiveSpec).
WaitEndsWhileStreamOpen ==
  (bridge = "open" /\ pc = "waiting" /\ pending > 0) ~> (pc # "waiting" \/ bridge = "failed")

\* The background loop of the bridge is over.
BridgeOver == bridge \in {"stopped", "failed", "ended"}

\* What the callbacks of the bridge write.
CallbackState ==
  <<idleResolve, errorResolve, latestLoopControl, capturedThisTurn, retries,
    retryLog, uiStreamError, dropped>>

\* A step of the background loop: it takes events off the stream or ends.
BridgeStep == Len(stream') < Len(stream) \/ bridge' # bridge

\* C31: abort() can be called any number of times and after the stream has
\* ended: the flag stays set and a bridge that is over stays as it is; once
\* abort() was called no step of the bridge calls a callback (the loop only
\* ends), and a stream failure after abort() is not given to onError.
C31_AbortIsFinal ==
  [][/\ (abortFlag => abortFlag')
     /\ (BridgeOver => UNCHANGED <<bridge, stream, uiStreamError, dropped>>)
     /\ (abortFlag /\ BridgeStep
          => /\ UNCHANGED <<CallbackState, pc, req, reports>>
             /\ (Len(stream') < Len(stream) => bridge' \in {"stopped", "failed", "ended"}))]_vars

C31_Witness ==
  /\ abortFlag /\ bridge = "failed" /\ ~uiStreamError
  /\ pc = "waiting" /\ idleResolve /\ errorResolve /\ pending = 0

\* C32: when the UI is paused at the decision point after an iteration,
\* loopMain parks in the pause wait and sends nothing; while it is parked no
\* prompt is sent and no iteration starts, and the only step that ends the
\* pause is the unpause, which sends the continuation prompt.
C32_PauseGate ==
  /\ [](pc = "paused" => paused /\ pauseResolve /\ req # "inflight")
  /\ [][/\ (/\ RecordAppended /\ paused
             /\ ~PresentTerminal(Recorded)
             /\ currentIteration < maxIterations
             => pc' = "paused" /\ prompts' = prompts /\ req' = req)
        /\ (pc = "paused"
             => \/ /\ pc' = "paused"
                   /\ UNCHANGED <<prompts, req, currentIteration, summaries, paused>>
                \/ /\ paused /\ ~paused'
                   /\ pc' = "sendCont" /\ req' = "inflight"
                   /\ Len(prompts') = Len(prompts) + 1
                   /\ UNCHANGED <<currentIteration, summaries>>)]_vars

C32_Witness ==
  /\ pc = "paused" /\ paused /\ pauseResolve
  /\ currentIteration = 2 /\ Len(summaries) = 1 /\ Len(prompts) = 1

\* C33: when sending the first prompt fails the error leaves loopMain: no
\* record exists, loopMain emits no final report (without an interrupt there
\* is no report at all), no wait was ever registered and nothing but the
\* first prompt was sent.
C33_FirstPromptFailureIsFatal ==
  pc = "failedSetup" =>
    /\ summaries = << >>
    /\ \A j \in 1..Len(reports) : reports[j].by # "loop"
    /\ (~aborted => reports = << >>)
    /\ ~idleResolve /\ ~errorResolve /\ retries = 0
    /\ prompts = <<InitialPrompt>>
    /\ currentIteration = 1
    /\ proc \in {"running", "exit1_fatal", "exit130", "exit1_signal"}

C33_Witness ==
  /\ pc = "failedSetup" /\ proc = "exit1_fatal"
  /\ reports = << >> /\ summaries = << >> /\ abortFlag

\* C34: the callbacks of the bridge write no run state of loopMain: a step
\* in which the bridge handles an event of any kind or the failure of the
\* stream leaves currentIteration, consecutiveMisses, the records and aborted
\* unchanged, and it moves loopMain only by resolving a registered wait.
C34_BridgeWritesNoRunState ==
  [][BridgeStep
     => /\ UNCHANGED <<currentIteration, consecutiveMisses, summaries, aborted>>
        /\ (pc' # pc
            => /\ pc = "waiting"
               /\ \/ idleResolve /\ ~idleResolve'
                  \/ errorResolve /\ ~errorResolve')]_vars

C34_Witness ==
  /\ bridge = "failed" /\ uiStreamError
  /\ pc = "waiting" /\ retries = 1 /\ latestLoopControl # Absent
  /\ currentIteration = 2 /\ Len(summaries) = 1

\* C35: an idle event ends the wait of an iteration only if the turn of the
\* most recently sent prompt emitted it: when an idle is honoured, the
\* runtime has answered every prompt it accepted, so the idle of a failed
\* turn never stands for the turn of the retry prompt.
C35_IdleIsOfLatestTurn ==
  [][IdleDelivered /\ pc = "waiting" /\ pc' = "fetching"
     => pending = 0 /\ ~turnActive]_vars

\* The idle of a failed turn that arrives before the retry's wait is
\* registered ends no wait (holds).
StaleIdleBeforeWaitIsDiscarded ==
  [][IdleDelivered /\ pc # "waiting" => pc' = pc /\ UNCHANGED summaries]_vars

\* C36: for an updated loop_control part the inline path hands onLoopControl
\* exactly what extractLoopControl returns for the sequence holding that part
\* alone when the part is completed or errored, and hands over nothing when
\* it is pending or running; the verdict handed over last is the one kept.
C36_InlineMatchesClassifier ==
  [][cOut'.i = cOut.i + 1
     => LET part == cParts[cOut'.i] IN
          IF part.type = "tool" /\ IsLoopControlTool(part.tool)
          THEN IF part.state \in {"completed", "error"}
               THEN /\ cOut'.result = ExtractResult(<<part>>)
                    /\ cOut'.result # NoResult
                    /\ latestLoopControl' = ExtractLoopControl(<<part>>)
               ELSE /\ cOut'.result = NoResult
                    /\ latestLoopControl' = latestLoopControl
          ELSE /\ cOut'.result = NoResult
               /\ latestLoopControl' = latestLoopControl]_vars

C36_Witness ==
  /\ Len(cParts) = 3 /\ cOut.by = "inline" /\ cOut.i = 3
  /\ cParts[1] = ToolPart("loop_control", "completed", "complete", "m1", "")
  /\ cParts[2] = ToolPart("loop_control", "error", "complete", "m1", "boom")
  /\ cParts[3] = ToolPart("loop_control", "running", "blocked", "m1", "")
  /\ latestLoopControl = "unknown"
  /\ cOut.result = NoResult

\* C37: the subscription is established before the first prompt is sent:
\* once a prompt was sent the bridge is no longer connecting, so the runtime
\* never runs a turn the bridge does not listen to.
C37_SubscribedBeforeFirstPrompt ==
  /\ (prompts # << >> => bridge # "connecting")
  /\ (turnActive => bridge # "connecting")

\* A prompt leaves for the runtime in this step.
PromptSent == req' = "inflight" /\ req # "inflight"

\* C38: once the first interrupt has set aborted, loopMain sends no prompt,
\* neither a continuation nor a retry, and aborted stays set.
C38_NoPromptAfterInterrupt ==
  [][aborted => aborted' /\ ~PromptSent]_vars

\* aborted is never cleared (holds).
AbortedIsFinal == [][aborted => aborted']_vars

Starts == SelectSeq(uiLog, LAMBDA c : c.call = "start")
Completes == SelectSeq(uiLog, LAMBDA c : c.call = "complete")
StartCall(k) == [call |-> "start", index |-> k]
LoopReported == \E j \in 1..Len(reports) : reports[j].by = "loop"

\* C39: onIterationStart is called with 1, 2, ... in this order, once each,
\* never above maxIterations and each time right before the prompt of that
\* iteration is sent; onIterationComplete of iteration k comes at most once,
\* after onIterationStart(k) and before onIterationStart(k + 1); after the
\* final report of loopMain neither is called.
C39_ObserverProtocol ==
  /\ [](/\ \A i \in 1..Len(Starts) : Starts[i].index = i /\ i <= maxIterations
        /\ Len(Starts) = Len(prompts)
        /\ (req = "inflight" /\ pc \in {"sendInit", "sendCont"}
             => LastOf(uiLog) = StartCall(currentIteration))
        /\ \A i \in 1..Len(Completes) : Completes[i].index = i
        /\ \A j \in 1..Len(uiLog) :
             uiLog[j].call = "complete" =>
               /\ \E i \in 1..(j - 1) : uiLog[i] = StartCall(uiLog[j].index)
               /\ \A i \in 1..(j - 1) : uiLog[i] # StartCall(uiLog[j].index + 1))
  /\ [][LoopReported => uiLog' = uiLog]_vars

C39_Witness ==
  /\ pc = "done" /\ LoopReported /\ maxIterations = 2
  /\ uiLog = <<StartCall(1), [call |-> "complete", index |-> 1],
               StartCall(2), [call |-> "complete", index |-> 2]>>

====
